---- MODULE Spec2Model ----
(***************************************************************************)
(* Model of phone_agent/adb/screenshot.py: get_screenshot, its retry loop, *)
(* its classification of the transport's answer and the fallback image.    *)
(*                                                                         *)
(* Byte strings and texts are sequences of integers (byte values, code     *)
(* points).  The transport (subprocess.run) is a mock whose per-attempt    *)
(* answers are fixed for a run; get_screenshot is called MaxCalls times.   *)
(* Under ConcSpec two threads call get_screenshot: the variables of the    *)
(* call are those of the thread that is running, peer holds the locals of  *)
(* the other thread, and Switch is the context switch between them.        *)
(***************************************************************************)
EXTENDS Integers, Sequences, FiniteSets, TLC

\* number of calls of get_screenshot made in one run
MaxCalls == 2

\* range(2), the number of attempts of one call
MaxAttempts == 2

default_width == 1080
default_height == 2400

----------------------------------------------------------------------------
\* Texts and byte strings

\* "Status: -1"
MarkerStatus == <<83, 116, 97, 116, 117, 115, 58, 32, 45, 49>>
\* "Failed"
MarkerFailed == <<70, 97, 105, 108, 101, 100>>

\* b"\x89PNG\r\n\x1a\n"
PNG_MAGIC == <<137, 80, 78, 71, 13, 10, 26, 10>>

\* pat in text
Contains(text, pat) ==
    \E i \in 0..(Len(text) - Len(pat)) : SubSeq(text, i + 1, i + Len(pat)) = pat

\* bytes.startswith(prefix)
StartsWith(bytes, prefix) ==
    /\ Len(bytes) >= Len(prefix)
    /\ SubSeq(bytes, 1, Len(prefix)) = prefix

\* "Status: -1" in text or "Failed" in text
HasRefusalMarkerStatusOnly(text) == Contains(text, MarkerStatus)
HasRefusalMarker(text) == Contains(text, MarkerStatus) \/ Contains(text, MarkerFailed)

\* bytes.decode("utf-8", errors="ignore") for bytes below 0xE0: an ASCII byte
\* is its own code point, a lead byte 0xC2..0xDF with a continuation byte is
\* one code point, any other byte is dropped.
RECURSIVE Utf8DecodeIgnore(_)
Utf8DecodeIgnore(b) ==
    IF Len(b) = 0 THEN <<>>
    ELSE IF b[1] < 128 THEN <<b[1]>> \o Utf8DecodeIgnore(Tail(b))
    ELSE IF /\ b[1] \in 194..223
            /\ Len(b) >= 2
            /\ b[2] \in 128..191
         THEN <<(b[1] - 192) * 64 + (b[2] - 128)>>
                  \o Utf8DecodeIgnore(SubSeq(b, 3, Len(b)))
    ELSE Utf8DecodeIgnore(Tail(b))

\* the base64 alphabet: A-Z a-z 0-9 + /, as ASCII codes; 61 is "="
B64Char(i) ==
    IF i < 26 THEN 65 + i
    ELSE IF i < 52 THEN 97 + (i - 26)
    ELSE IF i < 62 THEN 48 + (i - 52)
    ELSE IF i = 62 THEN 43
    ELSE 47

\* base64.b64encode(bytes).decode("utf-8")
RECURSIVE B64Encode(_)
B64Encode(b) ==
    IF Len(b) = 0 THEN <<>>
    ELSE IF Len(b) = 1 THEN
        <<B64Char(b[1] \div 4), B64Char((b[1] % 4) * 16), 61, 61>>
    ELSE IF Len(b) = 2 THEN
        <<B64Char(b[1] \div 4),
          B64Char((b[1] % 4) * 16 + (b[2] \div 16)),
          B64Char((b[2] % 16) * 4), 61>>
    ELSE
        <<B64Char(b[1] \div 4),
          B64Char((b[1] % 4) * 16 + (b[2] \div 16)),
          B64Char((b[2] % 16) * 4 + (b[3] \div 64)),
          B64Char(b[3] % 64)>> \o B64Encode(SubSeq(b, 4, Len(b)))

\* the inverse of B64Char
B64Index(c) ==
    IF c \in 65..90 THEN c - 65
    ELSE IF c \in 97..122 THEN c - 71
    ELSE IF c \in 48..57 THEN c + 4
    ELSE IF c = 43 THEN 62
    ELSE 63

\* base64.b64decode(text): what a reader of base64_data gets back
RECURSIVE B64Decode(_)
B64Decode(s) ==
    IF Len(s) < 4 THEN <<>>
    ELSE LET i1 == B64Index(s[1])
             i2 == B64Index(s[2])
             i3 == B64Index(s[3])
             i4 == B64Index(s[4])
             b1 == i1 * 4 + (i2 \div 16)
             b2 == (i2 % 16) * 16 + (i3 \div 4)
             b3 == (i3 % 4) * 64 + i4
         IN  IF s[3] = 61 THEN <<b1>>
             ELSE IF s[4] = 61 THEN <<b1, b2>>
             ELSE <<b1, b2, b3>> \o B64Decode(SubSeq(s, 5, Len(s)))

----------------------------------------------------------------------------
\* The image codec (PIL), on an abstract PNG stream:
\*   PNG_MAGIC, width (4 bytes, big endian), height (4 bytes, big endian),
\*   IDAT_TAG, compressed pixel data (a run of colour bytes), IEND_TAG.

IDAT_TAG == 73
IEND_TAG == 174
BLACK == 0

BE32(n) == <<n \div 16777216, (n \div 65536) % 256, (n \div 256) % 256, n % 256>>
FromBE32(s) == s[1] * 16777216 + s[2] * 65536 + s[3] * 256 + s[4]

HeaderLen == Len(PNG_MAGIC) + 8

\* black_img.save(buffered, format="PNG"); buffered.getvalue()
PngSave(w, h, colour) ==
    PNG_MAGIC \o BE32(w) \o BE32(h) \o <<IDAT_TAG, colour, IEND_TAG>>

\* Image.open(BytesIO(bytes)) is lazy: it reads the signature and the header
\* chunks up to the start of the pixel data and raises if that much is not
\* there; the pixel data is not read.
ImageOpenRaises(bytes) ==
    \/ ~StartsWith(bytes, PNG_MAGIC)
    \/ Len(bytes) < HeaderLen + 1
    \/ bytes[HeaderLen + 1] # IDAT_TAG

\* img.size
ImageSize(bytes) ==
    <<FromBE32(SubSeq(bytes, 9, 12)), FromBE32(SubSeq(bytes, 13, 16))>>

\* img.load() succeeds: the stream is a complete image
WellFormedImage(bytes) ==
    /\ ~ImageOpenRaises(bytes)
    /\ Len(bytes) >= HeaderLen + 3
    /\ bytes[Len(bytes)] = IEND_TAG

----------------------------------------------------------------------------
\* Screenshot and the fallback image

NoScreenshot == [base64_data |-> <<>>, width |-> 0, height |-> 0, is_sensitive |-> FALSE]

Screenshot(data, w, h, sensitive) ==
    [base64_data |-> data, width |-> w, height |-> h, is_sensitive |-> sensitive]

_create_fallback_screenshotTinted(is_sensitive) ==
    Screenshot(B64Encode(PngSave(default_width, default_height,
                                 IF is_sensitive THEN 255 ELSE BLACK)),
               default_width, default_height, is_sensitive)
_create_fallback_screenshot(is_sensitive) ==
    Screenshot(B64Encode(PngSave(default_width, default_height, BLACK)),
               default_width, default_height, is_sensitive)

\* device_id: <<>> is None, <<s>> is the string s
NoDevice == <<>>
DeviceIds == {NoDevice, <<"">>, <<"emulator-5554">>}
Timeouts == {5, 60}

_get_adb_prefixNoSelector(dev) == <<"adb">>
_get_adb_prefix(dev) ==
    IF dev # NoDevice /\ dev[1] # "" THEN <<"adb", "-s", dev[1]>> ELSE <<"adb">>

----------------------------------------------------------------------------
\* The transport's answers

StdoutSamples ==
    { <<>>,                                         \* nothing
      MarkerFailed,                                 \* "Failed"
      <<108, 101, 100>>,                            \* "led"
      <<120, 121>>,                                 \* "xy"
      <<70, 97, 105, 255, 108, 101, 100>>,          \* "Fai\xffled"
      PngSave(1, 2, 7),                             \* a complete image
      PNG_MAGIC \o BE32(3) \o BE32(1) \o <<IDAT_TAG, 7>>,   \* cut in the pixel data
      PNG_MAGIC \o <<0>> }                          \* cut in the header

StderrSamples ==
    { <<>>,
      MarkerStatus,                                 \* "Status: -1"
      MarkerFailed,                                 \* "Failed"
      <<70, 97, 105>>,                              \* "Fai"
      <<70, 97, 255, 105, 108, 101, 100>> }         \* "Fa\xffiled"

InvocationErrors == {"TimeoutExpired", "FileNotFoundError"}

Responses ==
    [kind : {"returns"}, exc : {""}, stdout : StdoutSamples, stderr : StderrSamples]
    \cup [kind : {"raises"}, exc : InvocationErrors, stdout : {<<>>}, stderr : {<<>>}]

----------------------------------------------------------------------------
\* State

VARIABLES
    device_id,      \* argument of get_screenshot
    timeout,        \* argument of get_screenshot
    responses,      \* the transport's answer to the 1st, 2nd attempt of a call
    callNo,         \* number of calls started
    pc,             \* position of the running call
    adb_prefix,     \* local
    attempt,        \* iterations of the for loop started
    last_error,     \* local; "None" or the recorded error
    stdout_bytes,   \* local
    stderr_text,    \* local
    exc,            \* the exception in flight, "None" if none
    ret,            \* the value returned to the caller
    log,            \* lines printed, over all calls
    logBase,        \* Len(log) when the running call started
    spawned,        \* processes started by the running call
    inflight,       \* processes started and not yet completed
    invocations,    \* (args, timeout) of the processes of the running call
    prev,           \* result and process count of the previous call
    cur,            \* the thread that is running, 1 or 2
    peer            \* the arguments, answers and locals of the other thread

vars == <<device_id, timeout, responses, callNo, pc, adb_prefix, attempt,
          last_error, stdout_bytes, stderr_text, exc, ret, log, logBase,
          spawned, inflight, invocations, prev, cur, peer>>

\* what no step of get_screenshot changes: its arguments, the transport's
\* answers, and the other thread
inputs == <<device_id, timeout, responses, cur, peer>>

NoPrev == [ret |-> NoScreenshot, spawned |-> 0]

\* a thread that has made calls calls and is not inside get_screenshot
IdleThread(dev, tout, resp, calls) ==
    [device_id |-> dev, timeout |-> tout, responses |-> resp, callNo |-> calls,
     pc |-> "idle", adb_prefix |-> <<>>, attempt |-> 0, last_error |-> "None",
     stdout_bytes |-> <<>>, stderr_text |-> <<>>, exc |-> "None",
     ret |-> NoScreenshot, logBase |-> 0, spawned |-> 0, inflight |-> 0,
     invocations |-> <<>>, prev |-> NoPrev]

Init ==
    /\ device_id \in DeviceIds
    /\ timeout \in Timeouts
    /\ responses \in [1..MaxAttempts -> Responses]
    /\ callNo = 0
    /\ pc = "idle"
    /\ adb_prefix = <<>>
    /\ attempt = 0
    /\ last_error = "None"
    /\ stdout_bytes = <<>>
    /\ stderr_text = <<>>
    /\ exc = "None"
    /\ ret = NoScreenshot
    /\ log = <<>>
    /\ logBase = 0
    /\ spawned = 0
    /\ inflight = 0
    /\ invocations = <<>>
    /\ prev = NoPrev
    /\ cur = 1
    /\ peer = IdleThread(device_id, timeout, responses, 0)

\* print(f"Screenshot warn: exec-out failed after retry: {last_error}")
WarnLine(e) == [prefix |-> "Screenshot warn: exec-out failed after retry: ", err |-> e]
\* print(f"Screenshot error: {e}")
ErrorLine(e) == [prefix |-> "Screenshot error: ", err |-> e]

\* except Exception (inner handler, around subprocess.run)
InnerCatchesTimeoutOnly(e) == e = "TimeoutExpired"
InnerCatches(e) == TRUE

\* except Exception (outer handler)
OuterCatchesRuntimeErrorOnly(e) ==
    e \in {"empty screenshot output", "screenshot output is not PNG"}
OuterCatches(e) == TRUE

\* an exception e leaves the body of the outer try
Throw(e) ==
    IF OuterCatches(e) THEN pc' = "except" /\ exc' = e
    ELSE pc' = "raised" /\ exc' = e

----------------------------------------------------------------------------
\* get_screenshot, step by step

\* the caller calls get_screenshot(device_id, timeout); the locals are fresh
CallKeepsCounter ==
    /\ pc \in {"idle", "returned"}
    /\ callNo < MaxCalls
    /\ callNo' = callNo + 1
    /\ prev' = IF pc = "returned" THEN [ret |-> ret, spawned |-> spawned] ELSE prev
    /\ adb_prefix' = _get_adb_prefix(device_id)
    /\ attempt' = attempt
    /\ last_error' = "None"
    /\ stdout_bytes' = <<>>
    /\ stderr_text' = <<>>
    /\ exc' = "None"
    /\ ret' = NoScreenshot
    /\ logBase' = Len(log)
    /\ spawned' = 0
    /\ inflight' = 0
    /\ invocations' = <<>>
    /\ pc' = "for"
    /\ UNCHANGED <<inputs, log>>

Call ==
    /\ pc \in {"idle", "returned"}
    /\ callNo < MaxCalls
    /\ callNo' = callNo + 1
    /\ prev' = IF pc = "returned" THEN [ret |-> ret, spawned |-> spawned] ELSE prev
    /\ adb_prefix' = _get_adb_prefix(device_id)
    /\ attempt' = 0
    /\ last_error' = "None"
    /\ stdout_bytes' = <<>>
    /\ stderr_text' = <<>>
    /\ exc' = "None"
    /\ ret' = NoScreenshot
    /\ logBase' = Len(log)
    /\ spawned' = 0
    /\ inflight' = 0
    /\ invocations' = <<>>
    /\ pc' = "for"
    /\ UNCHANGED <<inputs, log>>

\* for _ in range(2): the next iteration, or the end of the loop
ForIterThree ==
    /\ pc = "for"
    /\ IF attempt < MaxAttempts + 1
       THEN attempt' = attempt + 1 /\ pc' = "invoke"
       ELSE attempt' = attempt /\ pc' = "after_loop"
    /\ UNCHANGED <<inputs, callNo, adb_prefix, last_error, stdout_bytes,
                   stderr_text, exc, ret, log, logBase, spawned, inflight,
                   invocations, prev>>

ForIter ==
    /\ pc = "for"
    /\ IF attempt < MaxAttempts
       THEN attempt' = attempt + 1 /\ pc' = "invoke"
       ELSE attempt' = attempt /\ pc' = "after_loop"
    /\ UNCHANGED <<inputs, callNo, adb_prefix, last_error, stdout_bytes,
                   stderr_text, exc, ret, log, logBase, spawned, inflight,
                   invocations, prev>>

\* the transport's answer to the attempt under way (the mock has
\* MaxAttempts answers; a further attempt gets the last one again)
Answer(a) == responses[IF a > MaxAttempts THEN MaxAttempts ELSE a]

\* subprocess.run(adb_prefix + ["exec-out", "screencap", "-p"], ...) starts
\* the process
Spawn ==
    /\ pc = "invoke"
    /\ spawned' = spawned + 1
    /\ inflight' = inflight + 1
    /\ invocations' = Append(invocations,
           [args |-> adb_prefix \o <<"exec-out", "screencap", "-p">>,
            timeout |-> timeout])
    /\ pc' = "wait"
    /\ UNCHANGED <<inputs, callNo, adb_prefix, attempt, last_error,
                   stdout_bytes, stderr_text, exc, ret, log, logBase, prev>>

\* subprocess.run raises (launch failure, timeout):
\* except Exception as e: last_error = e; continue
RunRaisesKeepsFirst ==
    /\ pc = "wait"
    /\ Answer(attempt).kind = "raises"
    /\ inflight' = inflight - 1
    /\ IF InnerCatches(Answer(attempt).exc)
       THEN /\ last_error' = IF last_error = "None" THEN Answer(attempt).exc
                             ELSE last_error
            /\ pc' = "for"
            /\ exc' = exc
       ELSE /\ last_error' = last_error
            /\ Throw(Answer(attempt).exc)
    /\ UNCHANGED <<inputs, callNo, adb_prefix, attempt, stdout_bytes,
                   stderr_text, ret, log, logBase, spawned, invocations, prev>>

RunRaises ==
    /\ pc = "wait"
    /\ Answer(attempt).kind = "raises"
    /\ inflight' = inflight - 1
    /\ IF InnerCatches(Answer(attempt).exc)
       THEN /\ last_error' = Answer(attempt).exc
            /\ pc' = "for"
            /\ exc' = exc
       ELSE /\ last_error' = last_error
            /\ Throw(Answer(attempt).exc)
    /\ UNCHANGED <<inputs, callNo, adb_prefix, attempt, stdout_bytes,
                   stderr_text, ret, log, logBase, spawned, invocations, prev>>

\* subprocess.run returns; stdout_bytes and stderr_text are set
RunReturns ==
    /\ pc = "wait"
    /\ Answer(attempt).kind = "returns"
    /\ inflight' = inflight - 1
    /\ stdout_bytes' = Answer(attempt).stdout
    /\ stderr_text' = Utf8DecodeIgnore(Answer(attempt).stderr)
    /\ pc' = "classify"
    /\ UNCHANGED <<inputs, callNo, adb_prefix, attempt, last_error, exc, ret,
                   log, logBase, spawned, invocations, prev>>

\* return <value> from inside the try
Return(value) ==
    /\ ret' = value
    /\ pc' = "returned"

\* if not stdout_bytes: ...
ClassifyEmptyNoRetry ==
    /\ pc = "classify"
    /\ stdout_bytes = <<>>
    /\ IF HasRefusalMarker(stderr_text)
       THEN /\ Return(_create_fallback_screenshot(TRUE))
            /\ exc' = exc
       ELSE /\ Throw("empty screenshot output")
            /\ ret' = ret
    /\ UNCHANGED <<inputs, callNo, adb_prefix, attempt, last_error,
                   stdout_bytes, stderr_text, log, logBase, spawned, inflight,
                   invocations, prev>>

ClassifyEmptyFirstOnly ==
    /\ pc = "classify"
    /\ stdout_bytes = <<>>
    /\ IF HasRefusalMarker(stderr_text) /\ last_error = "None"
       THEN /\ Return(_create_fallback_screenshot(TRUE))
            /\ last_error' = last_error
       ELSE /\ last_error' = "empty screenshot output"
            /\ pc' = "for"
            /\ ret' = ret
    /\ UNCHANGED <<inputs, callNo, adb_prefix, attempt, stdout_bytes,
                   stderr_text, exc, log, logBase, spawned, inflight,
                   invocations, prev>>

ClassifyEmpty ==
    /\ pc = "classify"
    /\ stdout_bytes = <<>>
    /\ IF HasRefusalMarker(stderr_text)
       THEN /\ Return(_create_fallback_screenshot(TRUE))
            /\ last_error' = last_error
       ELSE /\ last_error' = "empty screenshot output"
            /\ pc' = "for"
            /\ ret' = ret
    /\ UNCHANGED <<inputs, callNo, adb_prefix, attempt, stdout_bytes,
                   stderr_text, exc, log, logBase, spawned, inflight,
                   invocations, prev>>

\* combined_text = stderr_text + stdout_bytes.decode("utf-8", errors="ignore")
CombinedTextStderrOnly(err_text, out_bytes) == err_text
CombinedTextStdoutFirst(err_text, out_bytes) == Utf8DecodeIgnore(out_bytes) \o err_text
CombinedText(err_text, out_bytes) == err_text \o Utf8DecodeIgnore(out_bytes)

\* if not stdout_bytes.startswith(b"\x89PNG\r\n\x1a\n"): ...
ClassifyNotPng ==
    /\ pc = "classify"
    /\ stdout_bytes # <<>>
    /\ ~StartsWith(stdout_bytes, PNG_MAGIC)
    /\ IF HasRefusalMarker(CombinedText(stderr_text, stdout_bytes))
       THEN /\ Return(_create_fallback_screenshot(TRUE))
            /\ last_error' = last_error
       ELSE /\ last_error' = "screenshot output is not PNG"
            /\ pc' = "for"
            /\ ret' = ret
    /\ UNCHANGED <<inputs, callNo, adb_prefix, attempt, stdout_bytes,
                   stderr_text, exc, log, logBase, spawned, inflight,
                   invocations, prev>>

\* the Screenshot of the success path
CapturedSwapped(bytes) ==
    Screenshot(B64Encode(bytes), ImageSize(bytes)[2], ImageSize(bytes)[1], FALSE)
Captured(bytes) ==
    Screenshot(B64Encode(bytes), ImageSize(bytes)[1], ImageSize(bytes)[2], FALSE)

\* img = Image.open(BytesIO(stdout_bytes)); ...; return Screenshot(...)
DecodeRetries ==
    /\ pc = "classify"
    /\ stdout_bytes # <<>>
    /\ StartsWith(stdout_bytes, PNG_MAGIC)
    /\ IF ImageOpenRaises(stdout_bytes)
       THEN /\ last_error' = "UnidentifiedImageError"
            /\ pc' = "for"
            /\ ret' = ret
       ELSE /\ Return(Captured(stdout_bytes))
            /\ last_error' = last_error
    /\ UNCHANGED <<inputs, callNo, adb_prefix, attempt, exc,
                   stdout_bytes, stderr_text, log, logBase, spawned, inflight,
                   invocations, prev>>

Decode ==
    /\ pc = "classify"
    /\ stdout_bytes # <<>>
    /\ StartsWith(stdout_bytes, PNG_MAGIC)
    /\ IF ImageOpenRaises(stdout_bytes)
       THEN /\ Throw("UnidentifiedImageError")
            /\ ret' = ret
       ELSE /\ Return(Captured(stdout_bytes))
            /\ exc' = exc
    /\ UNCHANGED <<inputs, callNo, adb_prefix, attempt, last_error,
                   stdout_bytes, stderr_text, log, logBase, spawned, inflight,
                   invocations, prev>>

\* if last_error: print(...); raise last_error
\* return _create_fallback_screenshot(is_sensitive=False)
AfterLoop ==
    /\ pc = "after_loop"
    /\ IF last_error # "None"
       THEN /\ log' = Append(log, WarnLine(last_error))
            /\ Throw(last_error)
            /\ ret' = ret
       ELSE /\ Return(_create_fallback_screenshot(FALSE))
            /\ log' = log
            /\ exc' = exc
    /\ UNCHANGED <<inputs, callNo, adb_prefix, attempt, last_error,
                   stdout_bytes, stderr_text, logBase, spawned, inflight,
                   invocations, prev>>

\* except Exception as e: print(...); return _create_fallback_screenshot(False)
OuterExceptSilent ==
    /\ pc = "except"
    /\ log' = log
    /\ Return(_create_fallback_screenshot(FALSE))
    /\ exc' = "None"
    /\ UNCHANGED <<inputs, callNo, adb_prefix, attempt, last_error,
                   stdout_bytes, stderr_text, logBase, spawned, inflight,
                   invocations, prev>>

OuterExcept ==
    /\ pc = "except"
    /\ log' = Append(log, ErrorLine(exc))
    /\ Return(_create_fallback_screenshot(FALSE))
    /\ exc' = "None"
    /\ UNCHANGED <<inputs, callNo, adb_prefix, attempt, last_error,
                   stdout_bytes, stderr_text, logBase, spawned, inflight,
                   invocations, prev>>

Next ==
    \/ Call
    \/ ForIter
    \/ Spawn
    \/ RunRaises
    \/ RunReturns
    \/ ClassifyEmpty
    \/ ClassifyNotPng
    \/ Decode
    \/ AfterLoop
    \/ OuterExcept

Spec == Init /\ [][Next]_vars

----------------------------------------------------------------------------
\* Two threads calling get_screenshot at the same time

\* the answers the transport gives under ConcSpec
ConcResponses ==
    { [kind |-> "raises", exc |-> "TimeoutExpired", stdout |-> <<>>, stderr |-> <<>>],
      [kind |-> "returns", exc |-> "", stdout |-> <<>>, stderr |-> <<>>],
      [kind |-> "returns", exc |-> "", stdout |-> <<>>, stderr |-> MarkerFailed],
      [kind |-> "returns", exc |-> "", stdout |-> <<120, 121>>, stderr |-> <<>>],
      [kind |-> "returns", exc |-> "", stdout |-> PngSave(1, 2, 7), stderr |-> <<>>],
      [kind |-> "returns", exc |-> "", stdout |-> PNG_MAGIC \o <<0>>, stderr |-> <<>>] }

\* thread 1 and thread 2 each have one call to make, thread 1 on the
\* default device and thread 2 on a named one, each with its own answers
ConcInit ==
    /\ device_id = NoDevice
    /\ timeout = 60
    /\ responses \in [1..MaxAttempts -> ConcResponses]
    /\ callNo = MaxCalls - 1
    /\ pc = "idle"
    /\ adb_prefix = <<>>
    /\ attempt = 0
    /\ last_error = "None"
    /\ stdout_bytes = <<>>
    /\ stderr_text = <<>>
    /\ exc = "None"
    /\ ret = NoScreenshot
    /\ log = <<>>
    /\ logBase = 0
    /\ spawned = 0
    /\ inflight = 0
    /\ invocations = <<>>
    /\ prev = NoPrev
    /\ cur = 1
    /\ peer \in { IdleThread(<<"emulator-5554">>, 60, resp, MaxCalls - 1) :
                      resp \in [1..MaxAttempts -> ConcResponses] }

\* the arguments, answers and locals of the running thread
Running ==
    [device_id |-> device_id, timeout |-> timeout, responses |-> responses,
     callNo |-> callNo, pc |-> pc, adb_prefix |-> adb_prefix,
     attempt |-> attempt, last_error |-> last_error,
     stdout_bytes |-> stdout_bytes, stderr_text |-> stderr_text, exc |-> exc,
     ret |-> ret, logBase |-> logBase, spawned |-> spawned,
     inflight |-> inflight, invocations |-> invocations, prev |-> prev]

\* the interpreter switches to the other thread: every local belongs to the
\* frame of its own call; only the printed output is common
SwitchSharesStdout ==
    /\ cur' = 3 - cur
    /\ peer' = Running
    /\ device_id' = peer.device_id
    /\ timeout' = peer.timeout
    /\ responses' = peer.responses
    /\ callNo' = peer.callNo
    /\ pc' = peer.pc
    /\ adb_prefix' = peer.adb_prefix
    /\ attempt' = peer.attempt
    /\ last_error' = peer.last_error
    /\ stdout_bytes' = stdout_bytes
    /\ stderr_text' = peer.stderr_text
    /\ exc' = peer.exc
    /\ ret' = peer.ret
    /\ logBase' = peer.logBase
    /\ spawned' = peer.spawned
    /\ inflight' = peer.inflight
    /\ invocations' = peer.invocations
    /\ prev' = peer.prev
    /\ UNCHANGED log

Switch ==
    /\ cur' = 3 - cur
    /\ peer' = Running
    /\ device_id' = peer.device_id
    /\ timeout' = peer.timeout
    /\ responses' = peer.responses
    /\ callNo' = peer.callNo
    /\ pc' = peer.pc
    /\ adb_prefix' = peer.adb_prefix
    /\ attempt' = peer.attempt
    /\ last_error' = peer.last_error
    /\ stdout_bytes' = peer.stdout_bytes
    /\ stderr_text' = peer.stderr_text
    /\ exc' = peer.exc
    /\ ret' = peer.ret
    /\ logBase' = peer.logBase
    /\ spawned' = peer.spawned
    /\ inflight' = peer.inflight
    /\ invocations' = peer.invocations
    /\ prev' = peer.prev
    /\ UNCHANGED log

ConcNext ==
    \/ Call
    \/ ForIter
    \/ Spawn
    \/ RunRaises
    \/ RunReturns
    \/ ClassifyEmpty
    \/ ClassifyNotPng
    \/ Decode
    \/ AfterLoop
    \/ OuterExcept
    \/ Switch

ConcSpec == ConcInit /\ [][ConcNext]_vars

----------------------------------------------------------------------------
\* Vocabulary of the properties, stated on the transport's answers

\* attempt a of the running call has been made and has completed
Completed(a) == a \in 1..spawned /\ (a < spawned \/ inflight = 0)

\* the text contains "Status: -1" or "Failed"
OccursAt(text, pat, i) ==
    /\ i + Len(pat) - 1 <= Len(text)
    /\ \A k \in 1..Len(pat) : text[i + k - 1] = pat[k]

MentionsRefusal(text) ==
    \E i \in 1..Len(text) :
        OccursAt(text, MarkerStatus, i) \/ OccursAt(text, MarkerFailed, i)

StdoutText(r) == Utf8DecodeIgnore(r.stdout)
StderrText(r) == Utf8DecodeIgnore(r.stderr)

\* the answer is a PNG stream that the codec opens
PngOk(r) ==
    /\ r.kind = "returns"
    /\ StartsWith(r.stdout, PNG_MAGIC)
    /\ ~ImageOpenRaises(r.stdout)

\* the answer has PNG magic and the codec raises on it
PngBroken(r) ==
    /\ r.kind = "returns"
    /\ StartsWith(r.stdout, PNG_MAGIC)
    /\ ImageOpenRaises(r.stdout)

\* empty stdout, refusal marker in stderr
RefusedEmpty(r) ==
    /\ r.kind = "returns"
    /\ r.stdout = <<>>
    /\ MentionsRefusal(StderrText(r))

\* non-empty stdout without PNG magic, no marker in either text on its own
NotPngNoMarkerAlone(r) ==
    /\ r.kind = "returns"
    /\ r.stdout # <<>>
    /\ ~StartsWith(r.stdout, PNG_MAGIC)
    /\ ~MentionsRefusal(StdoutText(r))
    /\ ~MentionsRefusal(StderrText(r))

\* the black 1080x2400 placeholder
IsPlaceholder(shot, sensitive) ==
    /\ shot.width = 1080
    /\ shot.height = 2400
    /\ shot.is_sensitive = sensitive
    /\ shot.base64_data = B64Encode(PngSave(1080, 2400, 0))

\* the lines printed by the running call
CallLog == SubSeq(log, logBase + 1, Len(log))

----------------------------------------------------------------------------
C2_InvocationsBounded ==
    /\ spawned <= 2
    /\ Len(invocations) = spawned
    /\ inflight \in {0, 1}
    /\ pc = "returned" => spawned >= 1 /\ inflight = 0
    /\ pc = "invoke" => inflight = 0

\* a call returned after two invocations
C2_Witness ==
    /\ pc = "returned"
    /\ spawned = 2
    /\ Len(invocations) = 2

\* C3: an attempt whose stdout has the PNG magic and opens is the last
\* attempt, and the call returns is_sensitive=False, the image's size and
\* the base64 text of exactly the stdout bytes, whatever stderr is.
C3_PngSuccess ==
    \A a \in 1..spawned :
        (Completed(a) /\ PngOk(responses[a])) =>
            /\ a = spawned
            /\ pc \in {"classify", "returned"}
            /\ pc = "returned" =>
                /\ ret.is_sensitive = FALSE
                /\ <<ret.width, ret.height>> = ImageSize(responses[a].stdout)
                /\ ret.base64_data = B64Encode(responses[a].stdout)
                /\ B64Decode(ret.base64_data) = responses[a].stdout

\* a 1x2 image was returned while stderr carried a refusal marker
C3_Witness ==
    /\ pc = "returned"
    /\ PngOk(responses[spawned])
    /\ MentionsRefusal(StderrText(responses[spawned]))
    /\ ret.width = 1
    /\ ret.height = 2

\* C4: an attempt with empty stdout and a refusal marker in stderr is the
\* last attempt, and the call returns the 1080x2400 placeholder with
\* is_sensitive=True.
C4_EmptyRefusal ==
    \A a \in 1..spawned :
        (Completed(a) /\ RefusedEmpty(responses[a])) =>
            /\ a = spawned
            /\ pc \in {"classify", "returned"}
            /\ pc = "returned" => IsPlaceholder(ret, TRUE)

\* the first attempt was refused with "Failed" and the call returned
C4_Witness ==
    /\ pc = "returned"
    /\ spawned = 1
    /\ responses[1].stdout = <<>>
    /\ responses[1].kind = "returns"
    /\ responses[1].stderr = MarkerFailed
    /\ ret.is_sensitive

\* C5: if both answers have non-empty stdout without PNG magic and neither
\* text on its own has a refusal marker, the call makes 2 attempts and
\* returns the placeholder with is_sensitive=False.
C5_NoMarkerAloneExhausts ==
    (pc = "returned" /\ \A a \in 1..2 : NotPngNoMarkerAlone(responses[a])) =>
        /\ spawned = 2
        /\ IsPlaceholder(ret, FALSE)

C8_FailureIsSensitive ==
    (pc = "returned" /\ ~PngOk(responses[spawned])) => IsPlaceholder(ret, TRUE)

\* C9: every returned Screenshot has non-empty base64_data, positive width
\* and height, and base64_data decodes to a complete image of that size.
C9_WellFormedResult ==
    pc = "returned" =>
        /\ Len(ret.base64_data) > 0
        /\ ret.width > 0
        /\ ret.height > 0
        /\ WellFormedImage(B64Decode(ret.base64_data))
        /\ ImageSize(B64Decode(ret.base64_data)) = <<ret.width, ret.height>>

\* C10: a call that gets the same device_id, timeout and transport answers
\* as the call before it returns the same Screenshot and starts the same
\* number of processes.
C10_Deterministic ==
    (pc = "returned" /\ callNo >= 2) =>
        /\ ret = prev.ret
        /\ spawned = prev.spawned

\* a repeated call that went through a retry and returned a real image
C10_Witness ==
    /\ pc = "returned"
    /\ callNo = 2
    /\ spawned = 2
    /\ prev.spawned = 2
    /\ PngOk(responses[2])

----------------------------------------------------------------------------
\* Vocabulary of the properties about retries

\* the pixel data of an image stream, between IDAT_TAG and IEND_TAG
PixelData(bytes) == SubSeq(bytes, HeaderLen + 2, Len(bytes) - 1)

\* the text the code inspects for markers: stderr text, then decoded stdout
InspectedText(r) == StderrText(r) \o StdoutText(r)

\* the answer makes the loop go on: an invocation exception, empty stdout
\* without a marker, or non-PNG stdout without a marker in the inspected text
Retryable(r) ==
    \/ r.kind = "raises"
    \/ /\ r.kind = "returns"
       /\ ~StartsWith(r.stdout, PNG_MAGIC)
       /\ ~MentionsRefusal(InspectedText(r))

\* the answer is a device refusal
Refused(r) ==
    /\ r.kind = "returns"
    /\ ~StartsWith(r.stdout, PNG_MAGIC)
    /\ MentionsRefusal(InspectedText(r))

\* the error a retryable answer records in last_error
ErrorOf(r) ==
    IF r.kind = "raises" THEN r.exc
    ELSE IF r.stdout = <<>> THEN "empty screenshot output"
    ELSE "screenshot output is not PNG"

\* the Screenshot a call returns when its last attempt got the answer r
BlackShot(sensitive) ==
    [base64_data |-> B64Encode(PngSave(1080, 2400, 0)),
     width |-> 1080, height |-> 2400, is_sensitive |-> sensitive]

ResultOf(r) ==
    IF Refused(r) THEN BlackShot(TRUE)
    ELSE IF PngOk(r) THEN
        [base64_data |-> B64Encode(r.stdout),
         width |-> ImageSize(r.stdout)[1], height |-> ImageSize(r.stdout)[2],
         is_sensitive |-> FALSE]
    ELSE BlackShot(FALSE)

----------------------------------------------------------------------------
\* C11: the fallback made with True and the one made with False have the
\* same base64_data, width 1080 and height 2400, is_sensitive is the
\* argument, and the image is solid black; so is every fallback a call
\* returns.
C11_PlaceholderPair ==
    /\ \A flag \in BOOLEAN :
        LET shot == _create_fallback_screenshot(flag)
            img == B64Decode(shot.base64_data)
        IN  /\ shot.is_sensitive = flag
            /\ shot.width = 1080
            /\ shot.height = 2400
            /\ WellFormedImage(img)
            /\ ImageSize(img) = <<1080, 2400>>
            /\ \A i \in 1..Len(PixelData(img)) : PixelData(img)[i] = 0
    /\ _create_fallback_screenshot(TRUE).base64_data
           = _create_fallback_screenshot(FALSE).base64_data
    /\ (pc = "returned" /\ ~PngOk(responses[spawned])) =>
           /\ ret = BlackShot(ret.is_sensitive)
           /\ ret.is_sensitive = Refused(responses[spawned])

\* a sensitive fallback was returned by a call whose first attempt failed
C11_Witness ==
    /\ pc = "returned"
    /\ spawned = 2
    /\ Refused(responses[2])
    /\ ret = BlackShot(TRUE)
    /\ ret.base64_data = BlackShot(FALSE).base64_data

\* C12: a second attempt is made exactly when the first attempt ended in a
\* retryable outcome; success, refusal (and a codec failure) on the first
\* attempt end the call after one process.
C12_RetryIff ==
    /\ spawned = 2 => Retryable(responses[1])
    /\ (Completed(1) /\ ~Retryable(responses[1])) => spawned = 1
    /\ (pc = "returned" /\ Retryable(responses[1])) => spawned = 2
    /\ (pc = "returned" /\ (PngOk(responses[1]) \/ Refused(responses[1]))) =>
           spawned = 1

\* a call retried after empty output without a marker
C12_Witness ==
    /\ pc = "returned"
    /\ spawned = 2
    /\ responses[1].kind = "returns"
    /\ responses[1].stdout = <<>>
    /\ ~MentionsRefusal(StderrText(responses[1]))

C14_CombinedRefusal ==
    \A a \in 1..spawned :
        ( /\ Completed(a)
          /\ responses[a].kind = "returns"
          /\ responses[a].stdout # <<>>
          /\ ~StartsWith(responses[a].stdout, PNG_MAGIC)
          /\ MentionsRefusal(StderrText(responses[a]) \o StdoutText(responses[a])) ) =>
            /\ a = spawned
            /\ pc \in {"classify", "returned"}
            /\ pc = "returned" => ret = BlackShot(TRUE)

\* a refusal recognised from a marker in stderr alone, beside non-PNG stdout
C14_Witness ==
    /\ pc = "returned"
    /\ ret.is_sensitive
    /\ responses[spawned].kind = "returns"
    /\ responses[spawned].stdout = <<120, 121>>
    /\ responses[spawned].stderr = MarkerStatus

\* C15: when both attempts end in retryable failures, the lines printed
\* after the loop report the error recorded by the second attempt.
C15_LastErrorIsSecond ==
    (pc = "returned" /\ Retryable(responses[1]) /\ Retryable(responses[2])) =>
        CallLog = << WarnLine(ErrorOf(responses[2])),
                     ErrorLine(ErrorOf(responses[2])) >>

\* two retryable failures that record different errors
C15_Witness ==
    /\ pc = "returned"
    /\ Retryable(responses[1])
    /\ Retryable(responses[2])
    /\ ErrorOf(responses[1]) # ErrorOf(responses[2])
    /\ responses[2].kind = "raises"

\* C16 as stated: without device_id the arguments are adb exec-out screencap
\* -p, with any device_id string they are adb -s <device_id> exec-out
\* screencap -p; all invocations of a call have these arguments and the
\* call's timeout.
C16_SelectorForEveryString ==
    \A i \in 1..Len(invocations) :
        /\ invocations[i].timeout = timeout
        /\ invocations[i].args =
               IF device_id = NoDevice
               THEN <<"adb", "exec-out", "screencap", "-p">>
               ELSE <<"adb", "-s", device_id[1], "exec-out", "screencap", "-p">>

\* C16 amended: the selector is added for every non-empty device_id; an
\* empty string is treated as no device_id.
C16_SelectorForNonEmpty ==
    \A i \in 1..Len(invocations) :
        /\ invocations[i].timeout = timeout
        /\ invocations[i].args =
               IF device_id = NoDevice \/ device_id = <<"">>
               THEN <<"adb", "exec-out", "screencap", "-p">>
               ELSE <<"adb", "-s", device_id[1], "exec-out", "screencap", "-p">>

\* two invocations were made for a named device
C16_Witness ==
    /\ Len(invocations) = 2
    /\ device_id = <<"emulator-5554">>
    /\ invocations[1] = invocations[2]

\* C18: when the first attempt ends in a retryable failure, the returned
\* Screenshot is the one the second attempt's answer determines, whichever
\* failure came first.
C18_SecondAttemptDecides ==
    (pc = "returned" /\ Retryable(responses[1])) =>
        /\ spawned = 2
        /\ ret = ResultOf(responses[2])

\* a timeout followed by a refusal
C18_Witness ==
    /\ pc = "returned"
    /\ responses[1].kind = "raises"
    /\ responses[1].exc = "TimeoutExpired"
    /\ Refused(responses[2])
    /\ ret.is_sensitive

\* C19: a call that returns is_sensitive=True or a real image has printed
\* nothing, a call that returns the placeholder with is_sensitive=False has
\* printed at least one line.
C19_LogMatchesResult ==
    pc = "returned" =>
        /\ (ret.is_sensitive \/ PngOk(responses[spawned])) => CallLog = <<>>
        /\ (~ret.is_sensitive /\ ~PngOk(responses[spawned])) =>
               /\ ret = BlackShot(FALSE)
               /\ Len(CallLog) >= 1

\* a real image returned without a line after a failed first attempt
C19_Witness ==
    /\ pc = "returned"
    /\ spawned = 2
    /\ PngOk(responses[2])
    /\ CallLog = <<>>

----------------------------------------------------------------------------
\* the Screenshot and the number of processes of a call that runs alone
\* with the answers resp
AloneResult(resp) ==
    IF Retryable(resp[1])
    THEN [ret |-> ResultOf(resp[2]), spawned |-> 2]
    ELSE [ret |-> ResultOf(resp[1]), spawned |-> 1]

\* C17: under every interleaving of two concurrent calls, each call returns
\* the Screenshot and starts the number of processes that it would alone
\* with its own answers, with its own arguments.
C17_NoInterference ==
    /\ pc = "returned" =>
           /\ [ret |-> ret, spawned |-> spawned] = AloneResult(responses)
           /\ Len(invocations) = spawned
           /\ \A i \in 1..Len(invocations) : invocations[i].args[1] = "adb"
    /\ peer.pc = "returned" =>
           /\ [ret |-> peer.ret, spawned |-> peer.spawned]
                  = AloneResult(peer.responses)
           /\ Len(peer.invocations) = peer.spawned
    /\ \A i \in 1..Len(invocations) :
           (Len(invocations[i].args) = 4) <=> (device_id = NoDevice)

\* both calls have returned, with different answers and different numbers
\* of processes, after steps that alternated: one call printed its line
\* between the two lines of the other
C17_Witness ==
    /\ pc = "returned"
    /\ peer.pc = "returned"
    /\ responses # peer.responses
    /\ spawned # peer.spawned
    /\ Len(log) = 3
    /\ log[1] = WarnLine("TimeoutExpired")
    /\ log[2] = ErrorLine("UnidentifiedImageError")
    /\ log[3] = ErrorLine("TimeoutExpired")

====
